---- MODULE Spec2Model ----
(***************************************************************************)
(* A model of the Modal lifecycle component (components/modal) and of the  *)
(* optional form-binding adapter shared by the Formik input wrappers       *)
(* (components/inputs).                                                    *)
(*                                                                         *)
(* React is modelled the way the components observe it: a render computes  *)
(* the output from the props, the commit puts the portal content into      *)
(* document.body, and the effects whose dependency list changed run their  *)
(* cleanup and then their body before any further event is delivered.      *)
(***************************************************************************)
EXTENDS Integers, Sequences, FiniteSets

VARIABLES
    hasWindow,   \* typeof window !== 'undefined': browser (TRUE) or server render
    mounted,     \* a Modal instance is mounted
    props,       \* the props of the latest render, defaults applied
    portal,      \* the modal content is mounted into document.body
    listeners,   \* keydown listeners registered on document, in registration order
    openDeps,    \* dependency list of the open/close effect at its last run
    keyDeps,     \* dependency list of the closeListener effect at its last run
    calls,       \* callbacks invoked by the latest operation, in order
    event,       \* the latest operation, with the isOpen value it started from
    wrapper,     \* which input wrapper is rendered
    name,        \* its name prop
    formik,      \* the ambient FormikContext: absent, or the form state of the field
    callerProps, \* the other props the caller passes to the wrapper
    formMounted, \* the wrapper has been rendered
    view,        \* what the latest render of the wrapper produced
    dom,         \* the own state of the control under the wrapper (used when uncontrolled)
    bareDom,     \* the own state of the same control used bare with the caller's props
    formCalls,   \* functions of the context and of the caller invoked by the latest operation
    bareCalls,   \* functions of the caller invoked by the bare control in that operation
    formEvent,   \* the latest operation on the wrapper
    composeProps, \* the props of the Modal whose content is composed
    composed,     \* that Modal has been rendered
    regions,      \* the header, body and footer its latest render chose
    pageProps,    \* the props of the latest render of CustomPagination
    pageMounted,  \* a CustomPagination is mounted
    pageState,    \* the page the Pagination under it remembers (used when uncontrolled)
    pageView,     \* the page the Pagination shows as current
    pageCalls,    \* callbacks invoked by the latest operation on the pagination
    crumbItems,   \* the items prop of the latest render of CustomBreadcrumb
    crumbRendered, \* a CustomBreadcrumb has been rendered
    isMounted,    \* its isMounted state
    effectPending, \* its mount effect has not run yet
    crumbOutput,  \* what its latest render returned
    warnings,     \* console.warn messages of its latest render
    themeProps,   \* the props of the latest render of CustomThemeProvider
    themed,       \* a CustomThemeProvider has been rendered
    theme,        \* the theme its latest render created
    tabItems,     \* the items prop of the latest render of CustomTabs
    tabsMounted,  \* a CustomTabs is mounted
    activeTab,    \* its activeTab state
    tabContent,   \* the items whose content its latest render displays
    notified,     \* which of onOpen, onClose the Modal instance invoked last
    instances,    \* several Modal instances on one page: mounted or not, and their props
    docListeners, \* the keydown listeners they registered on document, with their owner
    multiCalls    \* callbacks invoked by the latest operation, with the instance

modalVars == <<hasWindow, mounted, props, portal, listeners, openDeps, keyDeps,
               calls, event>>

formVars == <<wrapper, name, formik, callerProps, formMounted, view, dom, bareDom,
              formCalls, bareCalls, formEvent>>

composeVars == <<composeProps, composed, regions>>

pageVars == <<pageProps, pageMounted, pageState, pageView, pageCalls>>

crumbVars == <<crumbItems, crumbRendered, isMounted, effectPending, crumbOutput,
               warnings>>

themeVars == <<themeProps, themed, theme>>

tabVars == <<tabItems, tabsMounted, activeTab, tabContent>>

\* what is remembered of the Modal's earlier steps
historyVars == <<notified>>

multiVars == <<instances, docListeners, multiCalls>>

vars == <<modalVars, formVars, composeVars, pageVars, crumbVars, themeVars,
          tabVars, historyVars, multiVars>>

\* what the operations of one component leave alone
notModal ==
    <<formVars, composeVars, pageVars, crumbVars, themeVars, tabVars,
      multiVars>>

notForm ==
    <<modalVars, composeVars, pageVars, crumbVars, themeVars, tabVars,
      historyVars, multiVars>>

notCompose ==
    <<modalVars, formVars, pageVars, crumbVars, themeVars, tabVars,
      historyVars, multiVars>>

notPage ==
    <<modalVars, formVars, composeVars, crumbVars, themeVars, tabVars,
      historyVars, multiVars>>

notCrumb ==
    <<modalVars, formVars, composeVars, pageVars, themeVars, tabVars,
      historyVars, multiVars>>

notTheme ==
    <<modalVars, formVars, composeVars, pageVars, crumbVars, tabVars,
      historyVars, multiVars>>

notMulti ==
    <<modalVars, formVars, composeVars, pageVars, crumbVars, themeVars, tabVars,
      historyVars>>

notTabs ==
    <<modalVars, formVars, composeVars, pageVars, crumbVars, themeVars,
      historyVars, multiVars>>

(***************************************************************************)
(* Values                                                                  *)
(***************************************************************************)

\* number of distinct caller-supplied function identities per callback prop
NumFns == 2

Fns == 1 .. NumFns

\* an optional callback prop that the caller left out
Undefined == 0

\* onRequestClose = () => null: the default no-op, a fresh function each render
DefaultFn == 0

Keys == {"Escape", "Enter", "a"}

NoDeps == <<>>

ModalProps ==
    [isOpen : BOOLEAN,
     onOpen : Fns \cup {Undefined},
     onClose : Fns \cup {Undefined},
     onRequestClose : Fns \cup {DefaultFn},
     requestCloseOnEscClick : BOOLEAN,
     requestCloseOnBackdropClick : BOOLEAN,
     headerComponent : BOOLEAN]

\* the props before anything was rendered
NoProps ==
    [isOpen |-> FALSE, onOpen |-> Undefined, onClose |-> Undefined,
     onRequestClose |-> DefaultFn, requestCloseOnEscClick |-> TRUE,
     requestCloseOnBackdropClick |-> TRUE, headerComponent |-> FALSE]

Ev(op, wasOpen, key) == [op |-> op, wasOpen |-> wasOpen, key |-> key]

(***************************************************************************)
(* The Modal function component                                            *)
(***************************************************************************)

\* the effect without its isOpen tests
OpenCloseEffectNoGuard(p) ==
    (IF p.onClose # Undefined THEN << <<"onClose", p.onClose>> >> ELSE << >>)
    \o
    (IF p.onOpen # Undefined THEN << <<"onOpen", p.onOpen>> >> ELSE << >>)

\* useEffect(() => { if (!isOpen && onClose) onClose(); if (isOpen && onOpen) onOpen(); })
OpenCloseEffect(p) ==
    (IF ~p.isOpen /\ p.onClose # Undefined
        THEN << <<"onClose", p.onClose>> >> ELSE << >>)
    \o
    (IF p.isOpen /\ p.onOpen # Undefined
        THEN << <<"onOpen", p.onOpen>> >> ELSE << >>)

\* [isOpen, onOpen, onClose]
OpenCloseDeps(p) == <<p.isOpen, p.onOpen, p.onClose>>

\* the closure closeListener: the values of the render that created it
CloseListener(p) ==
    [isOpen |-> p.isOpen,
     requestCloseOnEscClick |-> p.requestCloseOnEscClick,
     onRequestClose |-> p.onRequestClose]

\* the listener without the requestCloseOnEscClick test
ListenerCallsNoFlag(l, key) ==
    IF l.isOpen /\ key = "Escape"
        THEN << <<"onRequestClose", l.onRequestClose>> >>
        ELSE << >>

\* the listener without the isOpen test
ListenerCallsIgnoreOpen(l, key) ==
    IF key = "Escape" /\ l.requestCloseOnEscClick
        THEN << <<"onRequestClose", l.onRequestClose>> >>
        ELSE << >>

\* closeListener(e): if (isOpen && e.key === 'Escape' && requestCloseOnEscClick) onRequestClose()
ListenerCalls(l, key) ==
    IF l.isOpen /\ key = "Escape" /\ l.requestCloseOnEscClick
        THEN << <<"onRequestClose", l.onRequestClose>> >>
        ELSE << >>

\* a dependency list that leaves out onRequestClose
CloseListenerDepsNoHandler(p) == <<p.isOpen, p.requestCloseOnEscClick>>

\* [isOpen, requestCloseOnEscClick, onRequestClose]
CloseListenerDeps(p) == <<p.isOpen, p.requestCloseOnEscClick, p.onRequestClose>>

\* an effect without a dependency list: it runs after every render
DepsAlwaysChanged(old, new, fresh) == TRUE

\* Object.is comparison of the dependency lists; the default onRequestClose is a
\* new function object on every render, so it never compares equal
DepsChanged(old, new, fresh) == old = NoDeps \/ old # new \/ fresh

\* document.addEventListener('keydown', closeListener)
AddListener(ls, l) == Append(ls, l)

RECURSIVE RemoveFirst(_, _)
RemoveFirst(ls, l) ==
    IF ls = << >> THEN << >>
    ELSE IF Head(ls) = l THEN Tail(ls)
    ELSE <<Head(ls)>> \o RemoveFirst(Tail(ls), l)

\* a cleanup that removes nothing
RemoveListenerNoop(ls, l) == ls

\* document.removeEventListener('keydown', closeListener)
RemoveListener(ls, l) == RemoveFirst(ls, l)

\* a render that ignores isOpen
ModalRenderAlways(p, win) == win

\* isOpen && typeof window !== 'undefined' && createPortal(..., document.body)
ModalRender(p, win) == p.isOpen /\ win

\* a backdrop handler that ignores requestCloseOnBackdropClick
BackdropOnClickNoFlag(p) == << <<"onRequestClose", p.onRequestClose>> >>

\* onClick={() => requestCloseOnBackdropClick && onRequestClose()}
BackdropOnClick(p) ==
    IF p.requestCloseOnBackdropClick
        THEN << <<"onRequestClose", p.onRequestClose>> >>
        ELSE << >>

\* <Header requestClose={onRequestClose}/>: <button onClick={requestClose}>
HeaderCloseOnClick(p) == << <<"onRequestClose", p.onRequestClose>> >>

\* every listener registered on document receives the event, in registration order
RECURSIVE Dispatch(_, _)
Dispatch(ls, key) ==
    IF ls = << >> THEN << >>
    ELSE ListenerCalls(Head(ls), key) \o Dispatch(Tail(ls), key)

(***************************************************************************)
(* The optional form-binding adapter of the input wrappers                 *)
(***************************************************************************)

\* JavaScript values that are not strings
Undef == "<undefined>"
JsTrue == "<true>"
JsFalse == "<false>"

\* Boolean(v)
Truthy(v) == v \notin {Undef, JsFalse, ""}

Wrappers == {"FormikTextField", "FormikCheckbox", "FormikSwitch",
             "FormikRadioGroup", "FormikCustomTextarea"}

\* the fields of the ambient form
FieldNames == {"email"}

\* name?: string
NameProps == {Undef, ""} \cup FieldNames

FieldValues == {"", "x", JsTrue, JsFalse}

FieldErrors == {Undef, "", "required"}

\* useContext(FormikContext): undefined outside a <Formik>, else the form state
FormikContexts ==
    [present : {TRUE},
     values : [FieldNames -> FieldValues],
     touched : [FieldNames -> BOOLEAN],
     errors : [FieldNames -> FieldErrors]]

NoFormik ==
    [present |-> FALSE,
     values |-> [n \in FieldNames |-> ""],
     touched |-> [n \in FieldNames |-> FALSE],
     errors |-> [n \in FieldNames |-> Undef]]

\* the caller's props that reach the invalid mark and the helper text:
\* error and helperText (TextFieldProps), FormControlProps.error
CallerProps ==
    [error : {Undef, JsTrue, JsFalse},
     helperText : {Undef, "hint"},
     formControlError : {Undef, JsTrue, JsFalse},
     value : {Undef},
     checked : {Undef},
     onChange : {Undef}]

NoCallerProps ==
    [error |-> Undef, helperText |-> Undef, formControlError |-> Undef,
     value |-> Undef, checked |-> Undef, onChange |-> Undef]

\* the caller's props that reach the state of the control: value, checked, onChange
InputProps ==
    [error : {Undef},
     helperText : {Undef},
     formControlError : {Undef},
     value : {Undef, "", "x"},
     checked : {Undef, JsTrue, JsFalse},
     onChange : {Undef, "caller.onChange"}]

\* what the user can type into a text control, the values of the radio options
InputTexts == {"x", "y"}

\* getIn(obj, name)
GetIn(obj, n) == IF n \in DOMAIN obj THEN obj[n] ELSE Undef

\* a test of the context alone
BoundIgnoringName(ctx, n) == ctx.present

\* if (formik && name)
Bound(ctx, n) == ctx.present /\ Truthy(n)

IsCheckable(w) == w \in {"FormikCheckbox", "FormikSwitch"}

\* formik.getFieldProps(name) / formik.getFieldProps({ name, type: 'checkbox' })
getFieldProps(ctx, n, w) ==
    [name |-> n,
     value |-> GetIn(ctx.values, n),
     onChange |-> "formik.handleChange",
     onBlur |-> "formik.handleBlur",
     checked |-> IF IsCheckable(w)
                    THEN (IF Truthy(GetIn(ctx.values, n)) THEN JsTrue ELSE JsFalse)
                    ELSE Undef]

\* formik.getFieldMeta(name)
getFieldMeta(ctx, n) ==
    [value |-> GetIn(ctx.values, n),
     error |-> GetIn(ctx.errors, n),
     touched |-> IF n \in DOMAIN ctx.touched THEN ctx.touched[n] ELSE FALSE]

\* field = { name: name || '', value: '', onChange: () => {}, onBlur: () => {}, checked: false }
DefaultField(n, w) ==
    [name |-> IF Truthy(n) THEN n ELSE "",
     value |-> "",
     onChange |-> "noop",
     onBlur |-> "noop",
     checked |-> IF IsCheckable(w) THEN JsFalse ELSE Undef]

\* meta = { value: '', error: undefined, touched: false, ... }
DefaultMeta == [value |-> "", error |-> Undef, touched |-> FALSE]

\* an error shown whether or not the field was touched
ShowErrorIgnoringTouched(meta) == Truthy(meta.error)

\* const showError = Boolean(meta.touched && meta.error)
ShowError(meta) == meta.touched /\ Truthy(meta.error)

\* the invalid mark of the control:
\*   FormikTextField       error={showError || props.error}
\*   FormikCheckbox        <FormControl error={showError}>
\*   FormikSwitch          <FormControl error={showError} {...FormControlProps}>
\*   FormikRadioGroup      <FormControl error={showError} {...FormControlProps}>
\*   FormikCustomTextarea  aria-invalid={showError}
Invalid(w, showError, cp) ==
    CASE w = "FormikTextField" -> showError \/ Truthy(cp.error)
      [] w \in {"FormikSwitch", "FormikRadioGroup"} ->
            IF cp.formControlError = Undef THEN showError
            ELSE Truthy(cp.formControlError)
      [] OTHER -> showError

\* the error text next to the control: {showError && <FormHelperText>{meta.error}</...>},
\* for FormikTextField the helperText when showError
ErrorText(showError, meta) == IF showError THEN meta.error ELSE Undef

\* helperText={showError ? meta.error : props.helperText}
HelperText(w, showError, meta, cp) ==
    IF w = "FormikTextField"
        THEN (IF showError THEN meta.error ELSE cp.helperText)
        ELSE Undef

\* {...field} {...props}: a prop of the caller replaces the one of the field
Override(fromField, fromCaller) ==
    IF fromCaller # Undef THEN fromCaller ELSE fromField

\* a handler that does not test the name
RadioOnChangeAnyName(ctx, n) ==
    IF ctx.present THEN "formik.setFieldValue" ELSE "noop"

\* onChange={(event) => { if (formik && name) formik.setFieldValue(name, event.target.value) }}
RadioOnChange(ctx, n) ==
    IF Bound(ctx, n) THEN "formik.setFieldValue" ELSE "noop"

\* a radio group that leaves onChange to the spread of field and caller props
ControlPropsRadioSpread(w, ctx, n, field, cp) ==
    [controlled |->
        IF IsCheckable(w)
            THEN (IF field.checked = JsTrue THEN JsTrue ELSE JsFalse)
            ELSE Override(field.value, cp.value),
     onChange |-> Override(field.onChange, cp.onChange),
     onBlur |-> field.onBlur]

\* the props that decide the state of the underlying control:
\*   FormikTextField, FormikCustomTextarea  {...field} {...props}
\*   FormikRadioGroup                       {...field} {...radioGroupProps} onChange={...}
\*   FormikCheckbox, FormikSwitch           {...field} {...props} checked={field.checked || false}
\* controlled is the value prop of a text control or a radio group, the checked
\* prop of a checkbox or switch
ControlProps(w, ctx, n, field, cp) ==
    [controlled |->
        IF IsCheckable(w)
            THEN (IF field.checked = JsTrue THEN JsTrue ELSE JsFalse)
            ELSE Override(field.value, cp.value),
     onChange |->
        IF w = "FormikRadioGroup"
            THEN RadioOnChange(ctx, n)
            ELSE Override(field.onChange, cp.onChange),
     onBlur |-> field.onBlur]

\* the same control rendered bare with the caller's props
BareProps(w, cp) ==
    [controlled |-> IF IsCheckable(w) THEN cp.checked ELSE cp.value,
     onChange |-> cp.onChange,
     onBlur |-> Undef]

\* the own state of a control nobody has touched
InitialDom(w) == IF IsCheckable(w) THEN JsFalse ELSE ""

\* what a control shows: its controlling prop, or its own state when that is absent
Displayed(control, own) ==
    IF control.controlled # Undef THEN control.controlled ELSE own

\* the state a user gesture asks for: the text typed or the option selected; a
\* click on a checkbox or switch asks for the opposite of what it shows
Target(w, shown, t) ==
    IF IsCheckable(w) THEN (IF shown = JsTrue THEN JsFalse ELSE JsTrue) ELSE t

\* the functions of the context a render calls
RenderReads(ctx, n) ==
    IF Bound(ctx, n)
        THEN << <<"formik.getFieldProps", n>>, <<"formik.getFieldMeta", n>> >>
        ELSE << >>

\* one render of the wrapper
Render(w, ctx, n, cp) ==
    LET field == IF Bound(ctx, n) THEN getFieldProps(ctx, n, w) ELSE DefaultField(n, w)
        meta == IF Bound(ctx, n) THEN getFieldMeta(ctx, n) ELSE DefaultMeta
        showError == ShowError(meta)
    IN  [field |-> field,
         meta |-> meta,
         showError |-> showError,
         invalid |-> Invalid(w, showError, cp),
         errorText |-> ErrorText(showError, meta),
         helperText |-> HelperText(w, showError, meta, cp),
         control |-> ControlProps(w, ctx, n, field, cp)]

FormEv(op, fired, target) == [op |-> op, fired |-> fired, target |-> target]

(***************************************************************************)
(* The content of the Modal: header, body and footer                       *)
(***************************************************************************)

\* the values of the props that decide the content; the callbacks default to
\* () => null
ComposeDomains ==
    [headerComponent |-> Fns \cup {Undefined},
     bodyComponent |-> Fns \cup {Undefined},
     footerComponent |-> Fns \cup {Undefined},
     isConfirmationModal |-> BOOLEAN,
     title |-> {"", "Title"},
     children |-> {"null", "content"},
     onConfirm |-> {DefaultFn, 1},
     onCancel |-> {DefaultFn, 1},
     onRequestClose |-> {DefaultFn, 1}]

ComposeProps ==
    [headerComponent : ComposeDomains.headerComponent,
     bodyComponent : ComposeDomains.bodyComponent,
     footerComponent : ComposeDomains.footerComponent,
     isConfirmationModal : ComposeDomains.isConfirmationModal,
     title : ComposeDomains.title,
     children : ComposeDomains.children,
     onConfirm : ComposeDomains.onConfirm,
     onCancel : ComposeDomains.onCancel,
     onRequestClose : ComposeDomains.onRequestClose]

NoComposeProps ==
    [headerComponent |-> Undefined, bodyComponent |-> Undefined,
     footerComponent |-> Undefined, isConfirmationModal |-> FALSE,
     title |-> "", children |-> "null", onConfirm |-> DefaultFn,
     onCancel |-> DefaultFn, onRequestClose |-> DefaultFn]

\* a region: the render function of the caller applied to its arguments, or a
\* default component with the props it is given, or nothing
Region(by, fn, args) == [by |-> by, fn |-> fn, args |-> args]

NoRegion == Region("null", Undefined, << >>)

\* headerComponent ? headerComponent(title, onRequestClose) : <Header .../>
ModalHeader(p) ==
    IF p.headerComponent # Undefined
        THEN Region("headerComponent", p.headerComponent, <<p.title, p.onRequestClose>>)
        ELSE Region("Header", Undefined, <<p.title, p.onRequestClose>>)

\* bodyComponent ? bodyComponent(children, onRequestClose) : <Body>{children}</Body>
ModalBody(p) ==
    IF p.bodyComponent # Undefined
        THEN Region("bodyComponent", p.bodyComponent, <<p.children, p.onRequestClose>>)
        ELSE Region("Body", Undefined, <<p.children>>)

\* a footer chosen without looking at isConfirmationModal
ModalFooterAlways(p) ==
    IF p.footerComponent # Undefined
        THEN Region("footerComponent", p.footerComponent, <<p.onConfirm, p.onCancel>>)
        ELSE Region("Footer", Undefined, <<p.onConfirm, p.onCancel>>)

\* footerComponent ? footerComponent(onConfirm, onCancel)
\*     : isConfirmationModal ? <Footer .../> : null
ModalFooter(p) ==
    IF p.footerComponent # Undefined
        THEN Region("footerComponent", p.footerComponent, <<p.onConfirm, p.onCancel>>)
        ELSE IF p.isConfirmationModal
            THEN Region("Footer", Undefined, <<p.onConfirm, p.onCancel>>)
            ELSE NoRegion

\* {header} {body} {footer}
ModalContent(p) ==
    [header |-> ModalHeader(p), body |-> ModalBody(p), footer |-> ModalFooter(p)]

NoContent == [header |-> NoRegion, body |-> NoRegion, footer |-> NoRegion]

ComposeIdle ==
    /\ composeProps = NoComposeProps
    /\ composed = FALSE
    /\ regions = NoContent

(***************************************************************************)
(* CustomPagination                                                        *)
(***************************************************************************)

\* largest number of pages
MaxCount == 3

Pages == 1 .. MaxCount

\* count, page and onChange are required; defaultPage is one of the PaginationProps
\* the caller can pass along in ...props
PageProps ==
    {p \in [count : Pages, page : Pages, onChange : Fns,
            defaultPage : {Undefined, MaxCount}] : p.page <= p.count}

NoPageProps == [count |-> 1, page |-> 1, onChange |-> 1, defaultPage |-> Undefined]

\* a Pagination given the page as its defaultPage only
PaginationPropsUncontrolled(p) ==
    [count |-> p.count, page |-> Undefined, onChange |-> p.onChange,
     defaultPage |-> p.page]

\* <Pagination count={count} page={page} onChange={onChange} {...props} />
PaginationProps(p) ==
    [count |-> p.count, page |-> p.page, onChange |-> p.onChange,
     defaultPage |-> p.defaultPage]

\* Pagination: the state it starts with
InitialPage(mp) == IF mp.defaultPage # Undefined THEN mp.defaultPage ELSE 1

\* Pagination: the current page is the page prop when given, else its own state
CurrentPage(mp, own) == IF mp.page # Undefined THEN mp.page ELSE own

\* Pagination: a click on page v stores v when uncontrolled
ClickedPage(mp, own, v) == IF mp.page = Undefined THEN v ELSE own

\* Pagination: a click on page v calls onChange(event, v)
ClickCalls(mp, v) ==
    IF mp.onChange # Undefined THEN << <<"onChange", mp.onChange, v>> >> ELSE << >>

PageIdle ==
    /\ pageProps = NoPageProps
    /\ pageMounted = FALSE
    /\ pageState = 1
    /\ pageView = 1
    /\ pageCalls = << >>

(***************************************************************************)
(* CustomBreadcrumb                                                        *)
(***************************************************************************)

\* longest items list
MaxCrumbs == 3

BreadcrumbItem == [label : {"a", "b"}, href : {Undef, "/a"}]

\* the items prop: left out, or a list
ItemsProps ==
    {[given |-> FALSE, list |-> << >>]} \cup
    {[given |-> TRUE, list |-> l] :
        l \in UNION {[1 .. k -> BreadcrumbItem] : k \in 0 .. MaxCrumbs}}

NoItemsProp == [given |-> FALSE, list |-> << >>]

WarnText == "CustomBreadcrumb: \"items\" prop is empty. Breadcrumb will not render."

\* items.map(...): a link for an item with href that is not the last, else a text
CrumbElements(list) ==
    [i \in 1 .. Len(list) |->
        IF list[i].href # Undef /\ i # Len(list)
            THEN [kind |-> "Link", label |-> list[i].label, href |-> list[i].href]
            ELSE [kind |-> "Typography", label |-> list[i].label, href |-> Undef]]

Nothing == [nothing |-> TRUE, crumbs |-> << >>, warned |-> << >>]

\* a component that tests isMounted before it tests the items
CrumbRenderMountedFirst(items, m) ==
    IF ~m
        THEN Nothing
        ELSE IF ~items.given \/ Len(items.list) = 0
            THEN [Nothing EXCEPT !.warned = <<WarnText>>]
            ELSE [nothing |-> FALSE, crumbs |-> CrumbElements(items.list),
                  warned |-> << >>]

\* one render of CustomBreadcrumb with isMounted = m
CrumbRender(items, m) ==
    IF ~items.given \/ Len(items.list) = 0
        THEN [Nothing EXCEPT !.warned = <<WarnText>>]
        ELSE IF ~m
            THEN Nothing
            ELSE [nothing |-> FALSE, crumbs |-> CrumbElements(items.list),
                  warned |-> << >>]

CrumbIdle ==
    /\ crumbItems = NoItemsProp
    /\ crumbRendered = FALSE
    /\ isMounted = FALSE
    /\ effectPending = FALSE
    /\ crumbOutput = [nothing |-> TRUE, crumbs |-> << >>]
    /\ warnings = << >>

(***************************************************************************)
(* CustomThemeProvider                                                     *)
(***************************************************************************)

\* ThemeOptions.palette: each key given or left out
PaletteOptions ==
    [mode : {"light", "dark", Undef},
     primary : {"#f00", "#0f0", Undef},
     secondary : {"#00f", Undef}]

\* themeOptions: palette given or not, typography given or not
ThemeOptions ==
    [hasPalette : {TRUE}, palette : PaletteOptions, typography : {"Roboto", Undef}]
    \cup
    [hasPalette : {FALSE}, palette : {[mode |-> Undef, primary |-> Undef,
                                       secondary |-> Undef]},
     typography : {"Roboto", Undef}]

\* themeOptions = {}
NoThemeOptions ==
    [hasPalette |-> FALSE,
     palette |-> [mode |-> Undef, primary |-> Undef, secondary |-> Undef],
     typography |-> Undef]

ThemeProps == [themeOptions : ThemeOptions, darkMode : {JsTrue, JsFalse, Undef}]

NoThemeProps == [themeOptions |-> NoThemeOptions, darkMode |-> Undef]

\* { ...a, ...b }: the keys of b replace those of a
SpreadOver(a, b) == [k \in DOMAIN a |-> IF b[k] # Undef THEN b[k] ELSE a[k]]

\* the argument of createTheme:
\* { palette: { mode: darkMode ? 'dark' : 'light', ...themeOptions.palette },
\*   ...themeOptions }
ThemeArgument(p) ==
    LET opts == p.themeOptions
        own == SpreadOver(
                  [mode |-> IF p.darkMode = JsTrue THEN "dark" ELSE "light",
                   primary |-> Undef, secondary |-> Undef],
                  opts.palette)
    IN  [palette |-> IF opts.hasPalette THEN opts.palette ELSE own,
         typography |-> opts.typography]

\* createTheme: the keys left out get the defaults of the library
createTheme(arg) ==
    [palette |->
        [mode |-> IF arg.palette.mode # Undef THEN arg.palette.mode ELSE "light",
         primary |-> IF arg.palette.primary # Undef
                        THEN arg.palette.primary ELSE "#1976d2",
         secondary |-> IF arg.palette.secondary # Undef
                        THEN arg.palette.secondary ELSE "#9c27b0"],
     typography |-> IF arg.typography # Undef THEN arg.typography ELSE "Roboto"]

ThemeIdle ==
    /\ themeProps = NoThemeProps
    /\ themed = FALSE
    /\ theme = createTheme(ThemeArgument(NoThemeProps))

(***************************************************************************)
(* CustomTabs                                                              *)
(***************************************************************************)

\* longest items list
MaxTabs == 3

\* CustomTabItem.value: string | number; the numbers 0 and 1, the strings '' and 'a'
Num0 == "number 0"

StrEmpty == "string ''"

TabValues == {Num0, "number 1", StrEmpty, "string 'a'"}

\* items with unique values; the content of an item is told by its place
TabItems ==
    {l \in UNION {[1 .. k -> TabValues] : k \in 0 .. MaxTabs} :
        \A i, j \in 1 .. Len(l) : l[i] = l[j] => i = j}

\* a || b
JsOr(a, b) == IF a \in {Undef, Num0, StrEmpty} THEN b ELSE a

\* useState(items[0]?.value || 0)
InitialTab(items) == JsOr(IF Len(items) = 0 THEN Undef ELSE items[1], Num0)

\* items.map((item) => item.value === activeTab && <div>{item.content}</div>)
TabPanel(items, active) ==
    LET RECURSIVE Shown(_)
        Shown(i) ==
            IF i > Len(items) THEN << >>
            ELSE (IF items[i] = active THEN <<i>> ELSE << >>) \o Shown(i + 1)
    IN  Shown(1)

TabsIdle ==
    /\ tabItems = << >>
    /\ tabsMounted = FALSE
    /\ activeTab = Num0
    /\ tabContent = << >>

(***************************************************************************)
(* Several Modal instances on one document                                 *)
(***************************************************************************)

\* number of Modal instances on the page
NumModals == 2

ModalIds == 1 .. NumModals

\* the props the closeListener effect reads
ListenerProps ==
    [isOpen : BOOLEAN,
     requestCloseOnEscClick : BOOLEAN,
     onRequestClose : {DefaultFn, 1}]

NoListenerProps ==
    [isOpen |-> FALSE, requestCloseOnEscClick |-> TRUE, onRequestClose |-> DefaultFn]

NoInstance == [mounted |-> FALSE, props |-> NoListenerProps]

\* the closure an instance registers: each instance creates function objects of
\* its own
Registered(i, p) == [owner |-> i, closure |-> CloseListener(p)]

\* the calls a listener makes, with the instance that owns it
CallsBy(l, key) ==
    [k \in 1 .. Len(ListenerCalls(l.closure, key)) |->
        <<l.owner, ListenerCalls(l.closure, key)[k][1],
          ListenerCalls(l.closure, key)[k][2]>>]

\* a document that hands the event to the listener registered last only
MultiDispatchTopmost(ls, key) ==
    IF ls = << >> THEN << >> ELSE CallsBy(ls[Len(ls)], key)

\* every listener registered on document receives the event, in registration order
RECURSIVE MultiDispatch(_, _)
MultiDispatch(ls, key) ==
    IF ls = << >> THEN << >>
    ELSE CallsBy(Head(ls), key) \o MultiDispatch(Tail(ls), key)

MultiIdle ==
    /\ instances = [i \in ModalIds |-> NoInstance]
    /\ docListeners = << >>
    /\ multiCalls = << >>

\* none of the others rendered yet
RestIdle ==
    ComposeIdle /\ PageIdle /\ CrumbIdle /\ ThemeIdle /\ TabsIdle /\ MultiIdle

(***************************************************************************)
(* Operations                                                              *)
(***************************************************************************)

\* no wrapper rendered yet
FormIdle ==
    /\ wrapper = "FormikTextField"
    /\ name = Undef
    /\ formik = NoFormik
    /\ callerProps = NoCallerProps
    /\ formMounted = FALSE
    /\ view = Render("FormikTextField", NoFormik, Undef, NoCallerProps)
    /\ dom = ""
    /\ bareDom = ""
    /\ formCalls = << >>
    /\ bareCalls = << >>
    /\ formEvent = FormEv("init", FALSE, "")

\* no Modal rendered yet
ModalIdle(win) ==
    /\ hasWindow = win
    /\ mounted = FALSE
    /\ props = NoProps
    /\ portal = FALSE
    /\ listeners = << >>
    /\ openDeps = NoDeps
    /\ keyDeps = NoDeps
    /\ calls = << >>
    /\ event = Ev("init", FALSE, "")
    /\ notified = "none"

Init ==
    /\ \E win \in BOOLEAN : ModalIdle(win)
    /\ FormIdle
    /\ RestIdle

\* nothing rendered yet, in the browser
InitBrowser == ModalIdle(TRUE) /\ FormIdle /\ RestIdle

\* The passive effects of a commit with props p, given the effects' previous state.
RunOpenCloseEffect(p) ==
    IF DepsChanged(openDeps, OpenCloseDeps(p), FALSE)
        THEN /\ calls' = OpenCloseEffect(p)
             /\ openDeps' = OpenCloseDeps(p)
        ELSE /\ calls' = << >>
             /\ UNCHANGED openDeps

RunCloseListenerEffect(p) ==
    IF DepsChanged(keyDeps, CloseListenerDeps(p), p.onRequestClose = DefaultFn)
        THEN /\ listeners' =
                    AddListener(
                        IF keyDeps = NoDeps THEN listeners
                        ELSE RemoveListener(listeners, CloseListener(props)),
                        CloseListener(p))
             /\ keyDeps' = CloseListenerDeps(p)
        ELSE UNCHANGED <<listeners, keyDeps>>

\* first render of an instance in the browser
Mount(p) ==
    /\ hasWindow
    /\ ~mounted
    /\ mounted' = TRUE
    /\ props' = p
    /\ portal' = ModalRender(p, hasWindow)
    /\ RunOpenCloseEffect(p)
    /\ RunCloseListenerEffect(p)
    /\ event' = Ev("mount", FALSE, "")
    /\ UNCHANGED <<hasWindow, notModal>>

\* the parent renders the mounted instance again with props p
Rerender(p) ==
    /\ mounted
    /\ props' = p
    /\ portal' = ModalRender(p, hasWindow)
    /\ RunOpenCloseEffect(p)
    /\ RunCloseListenerEffect(p)
    /\ event' = Ev("render", props.isOpen, "")
    /\ UNCHANGED <<hasWindow, mounted, notModal>>

\* an unmount that reports the close to onClose
UnmountNotifies ==
    /\ mounted
    /\ mounted' = FALSE
    /\ portal' = FALSE
    /\ listeners' = RemoveListener(listeners, CloseListener(props))
    /\ openDeps' = NoDeps
    /\ keyDeps' = NoDeps
    /\ calls' = OpenCloseEffect([props EXCEPT !.isOpen = FALSE])
    /\ props' = NoProps
    /\ event' = Ev("unmount", props.isOpen, "")
    /\ UNCHANGED <<hasWindow, notModal>>

\* the parent removes the instance: the portal goes, the effect cleanups run
Unmount ==
    /\ mounted
    /\ mounted' = FALSE
    /\ portal' = FALSE
    /\ listeners' = RemoveListener(listeners, CloseListener(props))
    /\ openDeps' = NoDeps
    /\ keyDeps' = NoDeps
    /\ calls' = << >>
    /\ props' = NoProps
    /\ event' = Ev("unmount", props.isOpen, "")
    /\ UNCHANGED <<hasWindow, notModal>>

\* render on the server: no document, no effects
ServerRender(p) ==
    /\ ~hasWindow
    /\ props' = p
    /\ portal' = ModalRender(p, hasWindow)
    /\ calls' = << >>
    /\ event' = Ev("server", FALSE, "")
    /\ UNCHANGED <<hasWindow, mounted, listeners, openDeps, keyDeps, notModal>>

\* a keydown event reaches document
Keydown(key) ==
    /\ hasWindow
    /\ calls' = Dispatch(listeners, key)
    /\ event' = Ev("keydown", props.isOpen, key)
    /\ UNCHANGED <<hasWindow, mounted, props, portal, listeners, openDeps, keyDeps,
                   notModal>>

\* a backdrop click that hides the modal by itself
BackdropClickCloses ==
    /\ portal
    /\ portal' = FALSE
    /\ calls' = << >>
    /\ event' = Ev("backdrop", props.isOpen, "")
    /\ UNCHANGED <<hasWindow, mounted, props, listeners, openDeps, keyDeps, notModal>>

\* a click on the backdrop <div>
BackdropClick ==
    /\ portal
    /\ calls' = BackdropOnClick(props)
    /\ event' = Ev("backdrop", props.isOpen, "")
    /\ UNCHANGED <<hasWindow, mounted, props, portal, listeners, openDeps, keyDeps,
                   notModal>>

\* a click on the close button of the default header
HeaderCloseClick ==
    /\ portal
    /\ ~props.headerComponent
    /\ calls' = HeaderCloseOnClick(props)
    /\ event' = Ev("headerClose", props.isOpen, "")
    /\ UNCHANGED <<hasWindow, mounted, props, portal, listeners, openDeps, keyDeps,
                   notModal>>

Next ==
    \/ \E p \in ModalProps : Mount(p) /\ UNCHANGED historyVars
    \/ \E p \in ModalProps : Rerender(p) /\ UNCHANGED historyVars
    \/ Unmount /\ UNCHANGED historyVars
    \/ \E p \in ModalProps : ServerRender(p) /\ UNCHANGED historyVars
    \/ \E key \in Keys : Keydown(key) /\ UNCHANGED historyVars
    \/ BackdropClick /\ UNCHANGED historyVars
    \/ HeaderCloseClick /\ UNCHANGED historyVars

Spec == Init /\ [][Next]_vars

\* the callbacks of the open/close effect among the calls of a step
Notifications(cs) == SelectSeq(cs, LAMBDA c : c[1] \in {"onOpen", "onClose"})

\* the one invoked last, after a step that made the calls cs
LastNotified(last, cs) ==
    IF Notifications(cs) = << >> THEN last
    ELSE Notifications(cs)[Len(Notifications(cs))][1]

\* an instance whose parent gives both onOpen and onClose and passes the same
\* functions on every render
NextStable ==
    \/ \E p \in {q \in ModalProps : q.onOpen # Undefined /\ q.onClose # Undefined} :
          Mount(p) /\ notified' = LastNotified("none", calls')
    \/ \E p \in {q \in ModalProps :
                    q.onOpen = props.onOpen /\ q.onClose = props.onClose} :
          Rerender(p) /\ notified' = LastNotified(notified, calls')
    \/ Unmount /\ notified' = "none"
    \/ \E key \in Keys : Keydown(key) /\ UNCHANGED historyVars

SpecStable == InitBrowser /\ [][NextStable]_vars

\* instance i renders for the first time: its closeListener effect registers
MultiMount(i, p) ==
    /\ ~instances[i].mounted
    /\ instances' = [instances EXCEPT ![i] = [mounted |-> TRUE, props |-> p]]
    /\ docListeners' = AddListener(docListeners, Registered(i, p))
    /\ multiCalls' = << >>
    /\ UNCHANGED notMulti

\* instance i renders again: cleanup and effect when its dependency list changed
MultiRerender(i, p) ==
    /\ instances[i].mounted
    /\ instances' = [instances EXCEPT ![i].props = p]
    /\ docListeners' =
            IF DepsChanged(CloseListenerDeps(instances[i].props), CloseListenerDeps(p),
                           p.onRequestClose = DefaultFn)
                THEN AddListener(
                        RemoveListener(docListeners, Registered(i, instances[i].props)),
                        Registered(i, p))
                ELSE docListeners
    /\ multiCalls' = << >>
    /\ UNCHANGED notMulti

\* instance i unmounts: the cleanup of its closeListener effect
MultiUnmount(i) ==
    /\ instances[i].mounted
    /\ instances' = [instances EXCEPT ![i] = NoInstance]
    /\ docListeners' = RemoveListener(docListeners, Registered(i, instances[i].props))
    /\ multiCalls' = << >>
    /\ UNCHANGED notMulti

\* a keydown event reaches document
MultiKeydown(key) ==
    /\ multiCalls' = MultiDispatch(docListeners, key)
    /\ UNCHANGED <<notMulti, instances, docListeners>>

NextMulti ==
    \/ \E i \in ModalIds, p \in ListenerProps : MultiMount(i, p)
    \/ \E i \in ModalIds, p \in ListenerProps : MultiRerender(i, p)
    \/ \E i \in ModalIds : MultiUnmount(i)
    \/ \E key \in Keys : MultiKeydown(key)

SpecMulti == InitBrowser /\ [][NextMulti]_vars

(***************************************************************************)
(* Operations of the input wrappers                                        *)
(***************************************************************************)

\* first render of a wrapper, inside or outside a <Formik>
FormMount(w, n, ctx, cp) ==
    /\ ~formMounted
    /\ formMounted' = TRUE
    /\ wrapper' = w
    /\ name' = n
    /\ formik' = ctx
    /\ callerProps' = cp
    /\ view' = Render(w, ctx, n, cp)
    /\ dom' = InitialDom(w)
    /\ bareDom' = InitialDom(w)
    /\ formCalls' = RenderReads(ctx, n)
    /\ bareCalls' = << >>
    /\ formEvent' = FormEv("mount", FALSE, "")
    /\ UNCHANGED notForm

\* the parent renders the wrapper again with other props
FormRerender(cp) ==
    /\ formMounted
    /\ callerProps' = cp
    /\ view' = Render(wrapper, formik, name, cp)
    /\ formCalls' = RenderReads(formik, name)
    /\ bareCalls' = << >>
    /\ formEvent' = FormEv("render", FALSE, "")
    /\ UNCHANGED <<notForm, wrapper, name, formik, formMounted, dom, bareDom>>

\* the form state of the context changes and its consumers render again
FormikChange(n, v, t, e) ==
    /\ formMounted
    /\ formik.present
    /\ formik' = [formik EXCEPT !.values[n] = v, !.touched[n] = t, !.errors[n] = e]
    /\ formik' # formik
    /\ view' = Render(wrapper, formik', name, callerProps)
    /\ formCalls' = RenderReads(formik', name)
    /\ bareCalls' = << >>
    /\ formEvent' = FormEv("context", FALSE, "")
    /\ UNCHANGED <<notForm, wrapper, name, callerProps, formMounted, dom, bareDom>>

\* the wrapper is removed; nothing of the instance remains
FormUnmount ==
    /\ formMounted
    /\ formMounted' = FALSE
    /\ wrapper' = "FormikTextField"
    /\ name' = Undef
    /\ formik' = NoFormik
    /\ callerProps' = NoCallerProps
    /\ view' = Render("FormikTextField", NoFormik, Undef, NoCallerProps)
    /\ dom' = ""
    /\ bareDom' = ""
    /\ formCalls' = << >>
    /\ bareCalls' = << >>
    /\ formEvent' = FormEv("unmount", FALSE, "")
    /\ UNCHANGED notForm

NextForm ==
    \/ \E w \in Wrappers, n \in NameProps, ctx \in FormikContexts \cup {NoFormik},
          cp \in CallerProps : FormMount(w, n, ctx, cp)
    \/ \E cp \in CallerProps : FormRerender(cp)
    \/ \E n \in FieldNames, v \in FieldValues, t \in BOOLEAN, e \in FieldErrors :
          FormikChange(n, v, t, e)
    \/ FormUnmount

InitForm == ModalIdle(TRUE) /\ FormIdle /\ RestIdle

\* the handler the control calls on a change event, given the state asked for:
\* formik.handleChange and formik.setFieldValue store it as the value of the field
HandleChange(handler, ctx, n, target) ==
    IF handler \in {"formik.handleChange", "formik.setFieldValue"}
        THEN [ctx EXCEPT !.values[n] = target]
        ELSE ctx

\* the user types into the control, selects a radio option or clicks the checkbox
\* or switch; a change event fires when that changes what the control shows
UserInput(t) ==
    LET shown == Displayed(view.control, dom)
        target == Target(wrapper, shown, t)
        fired == target # shown
        handler == view.control.onChange
        bare == BareProps(wrapper, callerProps)
        bareShown == Displayed(bare, bareDom)
        bareTarget == Target(wrapper, bareShown, t)
        bareFired == bareTarget # bareShown
    IN  /\ formMounted
        /\ dom' = IF fired /\ view.control.controlled = Undef THEN target ELSE dom
        /\ bareDom' = IF bareFired /\ bare.controlled = Undef THEN bareTarget ELSE bareDom
        /\ formik' = IF fired THEN HandleChange(handler, formik, name, target) ELSE formik
        /\ view' = Render(wrapper, formik', name, callerProps)
        /\ formCalls' =
                (IF fired /\ handler \notin {Undef, "noop"}
                    THEN << <<handler, target>> >> ELSE << >>)
                \o (IF formik' # formik THEN RenderReads(formik', name) ELSE << >>)
        /\ bareCalls' =
                IF bareFired /\ bare.onChange # Undef
                    THEN << <<bare.onChange, bareTarget>> >> ELSE << >>
        /\ formEvent' = FormEv("input", fired, target)
        /\ UNCHANGED <<notForm, wrapper, name, callerProps, formMounted>>

\* the control loses the focus: onBlur; formik.handleBlur marks the field touched
UserBlur ==
    LET handler == view.control.onBlur
    IN  /\ formMounted
        /\ formik' = IF handler = "formik.handleBlur"
                        THEN [formik EXCEPT !.touched[name] = TRUE] ELSE formik
        /\ view' = Render(wrapper, formik', name, callerProps)
        /\ formCalls' =
                (IF handler = "formik.handleBlur"
                    THEN << <<handler, name>> >> ELSE << >>)
                \o (IF formik' # formik THEN RenderReads(formik', name) ELSE << >>)
        /\ bareCalls' = << >>
        /\ formEvent' = FormEv("blur", FALSE, "")
        /\ UNCHANGED <<notForm, wrapper, name, callerProps, formMounted, dom, bareDom>>

\* the props of the caller that matter to the wrapper's kind of control
InputPropsFor(w) ==
    {cp \in InputProps :
        IF IsCheckable(w) THEN cp.value = Undef ELSE cp.checked = Undef}

\* the forms a wrapper can be mounted in: none, or one whose field is untouched
InputContexts ==
    {NoFormik} \cup
    {ctx \in FormikContexts :
        \A n \in FieldNames : ~ctx.touched[n] /\ ctx.errors[n] = Undef}

NextInput ==
    \/ \E w \in Wrappers, n \in NameProps, ctx \in InputContexts :
          \E cp \in InputPropsFor(w) : FormMount(w, n, ctx, cp)
    \/ \E cp \in InputPropsFor(wrapper) : FormRerender(cp)
    \/ \E t \in InputTexts : UserInput(t)
    \/ UserBlur
    \/ FormUnmount

SpecInput == InitForm /\ [][NextInput]_vars

SpecForm == InitForm /\ [][NextForm]_vars

\* Modal rendered for the first time with props p
ComposeMount(p) ==
    /\ ~composed
    /\ composed' = TRUE
    /\ composeProps' = p
    /\ regions' = ModalContent(p)
    /\ UNCHANGED notCompose

\* the parent renders it again with prop f changed to v
ComposeRerender(f, v) ==
    /\ composed
    /\ v # composeProps[f]
    /\ composeProps' = [composeProps EXCEPT ![f] = v]
    /\ regions' = ModalContent(composeProps')
    /\ UNCHANGED <<notCompose, composed>>

ComposeUnmount ==
    /\ composed
    /\ composed' = FALSE
    /\ composeProps' = NoComposeProps
    /\ regions' = NoContent
    /\ UNCHANGED notCompose

NextCompose ==
    \/ \E p \in ComposeProps : ComposeMount(p)
    \/ \E f \in DOMAIN ComposeDomains :
          \E v \in ComposeDomains[f] : ComposeRerender(f, v)
    \/ ComposeUnmount

SpecCompose == InitBrowser /\ [][NextCompose]_vars

\* CustomPagination rendered for the first time with props p
PageMount(p) ==
    /\ ~pageMounted
    /\ pageMounted' = TRUE
    /\ pageProps' = p
    /\ pageState' = InitialPage(PaginationProps(p))
    /\ pageView' = CurrentPage(PaginationProps(p), pageState')
    /\ pageCalls' = << >>
    /\ UNCHANGED notPage

\* the parent renders it again with props p
PageRerender(p) ==
    /\ pageMounted
    /\ pageProps' = p
    /\ pageView' = CurrentPage(PaginationProps(p), pageState)
    /\ pageCalls' = << >>
    /\ UNCHANGED <<notPage, pageMounted, pageState>>

\* the user clicks the item of page v
PageChange(v) ==
    /\ pageMounted
    /\ v <= pageProps.count
    /\ pageState' = ClickedPage(PaginationProps(pageProps), pageState, v)
    /\ pageView' = CurrentPage(PaginationProps(pageProps), pageState')
    /\ pageCalls' = ClickCalls(PaginationProps(pageProps), v)
    /\ UNCHANGED <<notPage, pageMounted, pageProps>>

PageUnmount ==
    /\ pageMounted
    /\ pageMounted' = FALSE
    /\ pageProps' = NoPageProps
    /\ pageState' = 1
    /\ pageView' = 1
    /\ pageCalls' = << >>
    /\ UNCHANGED notPage

NextPage ==
    \/ \E p \in PageProps : PageMount(p)
    \/ \E p \in PageProps : PageRerender(p)
    \/ \E v \in Pages : PageChange(v)
    \/ PageUnmount

SpecPage == InitBrowser /\ [][NextPage]_vars

\* CustomBreadcrumb rendered for the first time: isMounted is false, the mount
\* effect is scheduled
CrumbMount(items) ==
    LET out == CrumbRender(items, FALSE)
    IN  /\ ~crumbRendered
        /\ crumbRendered' = TRUE
        /\ crumbItems' = items
        /\ isMounted' = FALSE
        /\ effectPending' = TRUE
        /\ crumbOutput' = [nothing |-> out.nothing, crumbs |-> out.crumbs]
        /\ warnings' = out.warned
        /\ UNCHANGED notCrumb

\* useEffect(() => { setIsMounted(true) }, []): the state change renders again
CrumbMountEffect ==
    LET out == CrumbRender(crumbItems, TRUE)
    IN  /\ crumbRendered /\ effectPending
        /\ effectPending' = FALSE
        /\ isMounted' = TRUE
        /\ crumbOutput' = [nothing |-> out.nothing, crumbs |-> out.crumbs]
        /\ warnings' = out.warned
        /\ UNCHANGED <<notCrumb, crumbRendered, crumbItems>>

\* the parent renders it again with other items
CrumbRerender(items) ==
    LET out == CrumbRender(items, isMounted)
    IN  /\ crumbRendered /\ ~effectPending
        /\ crumbItems' = items
        /\ crumbOutput' = [nothing |-> out.nothing, crumbs |-> out.crumbs]
        /\ warnings' = out.warned
        /\ UNCHANGED <<notCrumb, crumbRendered, isMounted, effectPending>>

CrumbUnmount ==
    /\ crumbRendered /\ ~effectPending
    /\ crumbRendered' = FALSE
    /\ crumbItems' = NoItemsProp
    /\ isMounted' = FALSE
    /\ effectPending' = FALSE
    /\ crumbOutput' = [nothing |-> TRUE, crumbs |-> << >>]
    /\ warnings' = << >>
    /\ UNCHANGED notCrumb

NextCrumb ==
    \/ \E items \in ItemsProps : CrumbMount(items)
    \/ CrumbMountEffect
    \/ \E items \in ItemsProps : CrumbRerender(items)
    \/ CrumbUnmount

SpecCrumb == InitBrowser /\ [][NextCrumb]_vars

\* CustomThemeProvider rendered with props p: every render creates the theme anew
ThemeRender(p) ==
    /\ themed' = TRUE
    /\ themeProps' = p
    /\ theme' = createTheme(ThemeArgument(p))
    /\ UNCHANGED notTheme

ThemeUnmount ==
    /\ themed
    /\ themed' = FALSE
    /\ themeProps' = NoThemeProps
    /\ theme' = createTheme(ThemeArgument(NoThemeProps))
    /\ UNCHANGED notTheme

NextTheme ==
    \/ \E p \in ThemeProps : ThemeRender(p)
    \/ ThemeUnmount

SpecTheme == InitBrowser /\ [][NextTheme]_vars

\* CustomTabs rendered for the first time
TabsMount(items) ==
    /\ ~tabsMounted
    /\ tabsMounted' = TRUE
    /\ tabItems' = items
    /\ activeTab' = InitialTab(items)
    /\ tabContent' = TabPanel(items, activeTab')
    /\ UNCHANGED notTabs

\* the parent renders it again with other items: the state is kept
TabsRerender(items) ==
    /\ tabsMounted
    /\ tabItems' = items
    /\ tabContent' = TabPanel(items, activeTab)
    /\ UNCHANGED <<notTabs, tabsMounted, activeTab>>

\* the user clicks tab i, which is not the selected one: handleChange(event, value)
TabSelect(i) ==
    /\ tabsMounted
    /\ i <= Len(tabItems)
    /\ tabItems[i] # activeTab
    /\ activeTab' = tabItems[i]
    /\ tabContent' = TabPanel(tabItems, activeTab')
    /\ UNCHANGED <<notTabs, tabsMounted, tabItems>>

TabsUnmount ==
    /\ tabsMounted
    /\ tabsMounted' = FALSE
    /\ tabItems' = << >>
    /\ activeTab' = Num0
    /\ tabContent' = << >>
    /\ UNCHANGED notTabs

NextTabs ==
    \/ \E items \in TabItems : TabsMount(items)
    \/ \E items \in TabItems : TabsRerender(items)
    \/ \E i \in 1 .. MaxTabs : TabSelect(i)
    \/ TabsUnmount

SpecTabs == InitBrowser /\ [][NextTabs]_vars

(***************************************************************************)
(* Properties of the Modal                                                 *)
(***************************************************************************)

CalledNext(cb) == {i \in 1 .. Len(calls') : calls'[i][1] = cb}

Once(cb, fn) == IF fn = Undefined THEN << >> ELSE << <<cb, fn>> >>

\* C1: a render that takes isOpen from false to true invokes onOpen (when supplied)
\* exactly once, invokes nothing else and leaves the content in the document; a
\* render that takes it from true to false invokes onClose exactly once, nothing
\* else, and leaves the content removed.
C1_TransitionNotifiesOnce ==
    [][(mounted /\ mounted') =>
        /\ (~props.isOpen /\ props'.isOpen) =>
                (calls' = Once("onOpen", props'.onOpen) /\ portal')
        /\ (props.isOpen /\ ~props'.isOpen) =>
                (calls' = Once("onClose", props'.onClose) /\ ~portal')]_vars

C1_Witness ==
    /\ event.op = "render" /\ event.wasOpen /\ ~props.isOpen
    /\ props.onClose # Undefined /\ props.onOpen # Undefined
    /\ calls = << <<"onClose", props.onClose>> >>
    /\ ~portal

\* C2: a keydown delivered while the instance is mounted invokes onRequestClose
\* exactly once if isOpen is true, the key is Escape and requestCloseOnEscClick is
\* true, and invokes nothing otherwise.
C2_EscapeRequestsClose ==
    [][\A key \in Keys : (mounted /\ Keydown(key)) =>
        calls' = IF props.isOpen /\ key = "Escape" /\ props.requestCloseOnEscClick
                    THEN << <<"onRequestClose", props.onRequestClose>> >>
                    ELSE << >>]_vars

C2_Witness ==
    /\ mounted /\ event.op = "keydown" /\ event.key = "Escape"
    /\ props.isOpen /\ props.requestCloseOnEscClick
    /\ calls = << <<"onRequestClose", props.onRequestClose>> >>

\* C3: a click on the backdrop invokes onRequestClose exactly once when
\* requestCloseOnBackdropClick is true and invokes no callback when it is false.
C3_BackdropClick ==
    [][BackdropClick =>
        calls' = IF props.requestCloseOnBackdropClick
                    THEN << <<"onRequestClose", props.onRequestClose>> >>
                    ELSE << >>]_vars

C3_Witness ==
    /\ event.op = "backdrop" /\ ~props.requestCloseOnBackdropClick
    /\ calls = << >>

\* C4: the content is mounted into document.body if and only if an instance is
\* mounted, its current isOpen is true and a browser window exists.
C4_PortalIffOpen == portal <=> (mounted /\ props.isOpen /\ hasWindow)

C4_Witness == mounted /\ portal /\ event.op = "render" /\ ~event.wasOpen

\* C5: a mounted instance has at most one keydown listener on document, and an
\* unmounted one has none.
C5_NoListenerLeak ==
    /\ Len(listeners) <= 1
    /\ ~mounted => listeners = << >>

C5_Witness == event.op = "unmount" /\ event.wasOpen /\ listeners = << >>

\* C6 as stated: whenever isOpen is false no keydown listener is registered.
C6_ListenerOnlyWhileOpen == (mounted /\ ~props.isOpen) => listeners = << >>

\* C6 amended: the listener is registered for the whole mounted lifetime, open or
\* closed; while isOpen is false the registered listener is inert.
C6_ListenerWhileMounted ==
    /\ mounted => Len(listeners) = 1
    /\ (mounted /\ ~props.isOpen) =>
            \A key \in Keys : Dispatch(listeners, key) = << >>

C6_Witness ==
    /\ mounted /\ ~props.isOpen /\ props.requestCloseOnEscClick
    /\ Len(listeners) = 1
    /\ event.op = "keydown" /\ event.key = "Escape" /\ calls = << >>

\* C7: an Escape press, a backdrop click or a click on the default close button
\* invokes nothing but onRequestClose and changes neither the props nor what is
\* mounted; while the instance stays mounted the content appears or disappears
\* only in a render whose isOpen differs from the previous one.
C7_NoInternalVisibility ==
    [][/\ (BackdropClick \/ HeaderCloseClick \/ \E key \in Keys : Keydown(key)) =>
            /\ UNCHANGED <<props, portal, mounted>>
            /\ \A i \in 1 .. Len(calls') : calls'[i][1] = "onRequestClose"
       /\ (mounted /\ mounted' /\ portal' # portal) =>
            props'.isOpen # props.isOpen]_vars

C7_Witness ==
    /\ event.op = "headerClose" /\ portal /\ props.isOpen
    /\ calls = << <<"onRequestClose", props.onRequestClose>> >>

\* C8: onOpen is invoked only when isOpen has just become true or on the first
\* render while open, onClose only when isOpen has just become false or on the
\* first render while closed; a re-render with isOpen unchanged invokes neither.
C8_OnlyOnFlagChange ==
    [][/\ CalledNext("onOpen") # {} => (props'.isOpen /\ (~mounted \/ ~props.isOpen))
       /\ CalledNext("onClose") # {} => (~props'.isOpen /\ (~mounted \/ props.isOpen))
       /\ (mounted /\ mounted' /\ props'.isOpen = props.isOpen) =>
            (CalledNext("onOpen") = {} /\ CalledNext("onClose") = {})]_vars

(***************************************************************************)
(* Properties of the form-binding adapter                                  *)
(***************************************************************************)

\* C9: on every render the field/meta pair comes from the Formik context if and
\* only if a context is present and name is a non-empty string; otherwise it is
\* the inert default: value '', no-op onChange and onBlur, checked false
\* (checkbox, switch), touched false, error undefined.
C9_BoundIffContextAndName ==
    formMounted =>
        IF formik.present /\ name \notin {Undef, ""}
            THEN /\ view.field.value = GetIn(formik.values, name)
                 /\ view.field.onChange = "formik.handleChange"
                 /\ view.field.onBlur = "formik.handleBlur"
                 /\ IsCheckable(wrapper) =>
                        (view.field.checked = JsTrue <=>
                            Truthy(GetIn(formik.values, name)))
                 /\ view.meta.touched = formik.touched[name]
                 /\ view.meta.error = formik.errors[name]
                 /\ view.meta.value = formik.values[name]
            ELSE /\ view.field.value = ""
                 /\ view.field.onChange = "noop"
                 /\ view.field.onBlur = "noop"
                 /\ IsCheckable(wrapper) => view.field.checked = JsFalse
                 /\ view.meta.touched = FALSE
                 /\ view.meta.error = Undef

C9_Witness ==
    /\ formMounted /\ formik.present /\ name = ""
    /\ formik.touched["email"] /\ formik.errors["email"] = "required"
    /\ formik.values["email"] = "x"
    /\ view.field.onChange = "noop" /\ view.meta.error = Undef

\* C10 as stated: for every wrapper the error text is displayed and the control
\* is marked invalid exactly when touched is true and error is non-empty.
C10_InvalidIffTouchedError ==
    formMounted =>
        LET shown == view.meta.touched /\ view.meta.error \notin {Undef, ""}
        IN  /\ (view.errorText # Undef) <=> shown
            /\ view.invalid <=> shown

\* C10 amended: the error text is displayed exactly when touched is true and
\* error is non-empty; the control is marked invalid exactly then, except that a
\* truthy error prop of the caller also marks FormikTextField invalid and a
\* FormControlProps.error of the caller replaces the mark of FormikSwitch and
\* FormikRadioGroup.
C10_InvalidUnlessCallerOverrides ==
    formMounted =>
        LET shown == view.meta.touched /\ view.meta.error \notin {Undef, ""}
        IN  /\ (view.errorText # Undef) <=> shown
            /\ shown => view.errorText = view.meta.error
            /\ CASE wrapper = "FormikTextField" ->
                        view.invalid <=> (shown \/ callerProps.error = JsTrue)
                 [] wrapper \in {"FormikSwitch", "FormikRadioGroup"}
                        /\ callerProps.formControlError # Undef ->
                        view.invalid <=> (callerProps.formControlError = JsTrue)
                 [] OTHER -> view.invalid <=> shown

C10_Witness ==
    /\ formMounted /\ formik.present /\ name = "email"
    /\ ~formik.touched["email"] /\ formik.errors["email"] = "required"
    /\ callerProps.error = Undef /\ callerProps.formControlError = Undef
    /\ ~view.invalid /\ view.errorText = Undef

(***************************************************************************)
(* Properties of the input wrappers under user interaction                 *)
(***************************************************************************)

\* what the control under the wrapper shows, and what the bare control shows
Shown == Displayed(view.control, dom)

BareShown == Displayed(BareProps(wrapper, callerProps), bareDom)

FormikReads == {"formik.getFieldProps", "formik.getFieldMeta"}

FormikMutations == {"formik.handleChange", "formik.handleBlur", "formik.setFieldValue"}

CallsOf(log, fns) == SelectSeq(log, LAMBDA c : c[1] \in fns)

\* C11: with no Formik context the wrapper shows, after every sequence of user
\* interactions, the value or checked state the bare control shows with the same
\* caller props.
C11_SameAsBareControl ==
    (formMounted /\ ~formik.present) => Shown = BareShown

\* C12: rendered with no context, no name and no props of the caller, the control
\* gets no value or checked prop, shows the empty value, shows no error text and
\* is not marked invalid.
C12_UncontrolledWhenUnbound ==
    (formMounted /\ ~formik.present /\ name = Undef
        /\ callerProps.value = Undef /\ callerProps.checked = Undef
        /\ callerProps.error = Undef /\ callerProps.helperText = Undef
        /\ callerProps.formControlError = Undef) =>
        /\ view.control.controlled = Undef
        /\ Shown = InitialDom(wrapper)
        /\ view.errorText = Undef
        /\ ~view.invalid

\* C13: a render calls no mutation function of the context; a mutation function
\* is called only by a user interaction with a bound control; with the context or
\* the name absent no function of the context is called at all.
C13_NoSideEffects ==
    [][/\ formEvent'.op \notin {"input", "blur"} =>
            CallsOf(formCalls', FormikMutations) = << >>
       /\ CallsOf(formCalls', FormikMutations) # << >> =>
            (formik.present /\ name \notin {Undef, ""})
       /\ ~(formik'.present /\ name' \notin {Undef, ""}) =>
            CallsOf(formCalls', FormikReads \cup FormikMutations) = << >>]_vars

C13_Witness ==
    /\ formMounted /\ formik.present /\ name = Undef
    /\ wrapper = "FormikRadioGroup"
    /\ formEvent.op = "input" /\ formEvent.fired
    /\ formCalls = << >>

\* C14: FormikCheckbox and FormikSwitch outside a form or without name show the
\* checked prop of the caller: checked for true, unchecked for false.
C14_CheckedPropHonoured ==
    (formMounted /\ IsCheckable(wrapper) /\ ~(formik.present /\ name \notin {Undef, ""})
        /\ callerProps.checked # Undef) =>
        Shown = callerProps.checked

\* C15: in a form and with a name, every selection of a radio option with value v
\* calls setFieldValue(name, v) exactly once and leaves v as the value of the field.
C15_RadioSetsFieldValue ==
    [][\A t \in InputTexts :
        (/\ UserInput(t)
         /\ wrapper = "FormikRadioGroup"
         /\ formik.present /\ name \notin {Undef, ""}
         /\ t # Shown) =>
            /\ CallsOf(formCalls', FormikMutations) =
                    << <<"formik.setFieldValue", t>> >>
            /\ formik'.values[name] = t]_vars

C15_Witness ==
    /\ formMounted /\ wrapper = "FormikRadioGroup"
    /\ formik.present /\ name = "email"
    /\ callerProps.onChange # Undef
    /\ formEvent.op = "input" /\ formEvent.fired /\ formEvent.target = "y"
    /\ formik.values["email"] = "y"
    /\ CallsOf(formCalls, FormikMutations) = << <<"formik.setFieldValue", "y">> >>

\* C16: FormikRadioGroup outside a form or without name calls the onChange of the
\* caller on every selection, as the bare RadioGroup does, and shows the option the
\* bare RadioGroup shows.
C16_RadioSameAsBare ==
    (formMounted /\ wrapper = "FormikRadioGroup"
        /\ ~(formik.present /\ name \notin {Undef, ""})) =>
        /\ Shown = BareShown
        /\ CallsOf(formCalls, {"caller.onChange"}) = bareCalls

\* C17: in a form and with a name, every change event on the control of
\* FormikTextField, FormikCustomTextarea, FormikCheckbox and FormikSwitch reaches
\* the change handler of the context and updates the value of the field, whatever
\* other props the caller passes.
C17_ChangeReachesFormik ==
    [][(/\ formEvent'.op = "input" /\ formEvent'.fired
        /\ wrapper # "FormikRadioGroup"
        /\ formik.present /\ name \notin {Undef, ""}) =>
            /\ CallsOf(formCalls', {"formik.handleChange"}) =
                    << <<"formik.handleChange", formEvent'.target>> >>
            /\ formik'.values[name] = formEvent'.target]_vars

(***************************************************************************)
(* Properties of the Modal content, CustomPagination and CustomBreadcrumb  *)
(***************************************************************************)

\* C18: header, body and footer are chosen each from its own props: the render
\* function of the caller applied to (title, onRequestClose), (children,
\* onRequestClose), (onConfirm, onCancel) when given, else the default; the default
\* footer exactly when no footerComponent is given and isConfirmationModal is
\* true, and no footer when neither holds.
C18_RegionsChosenIndependently ==
    composed =>
        /\ IF composeProps.headerComponent # Undefined
              THEN /\ regions.header.by = "headerComponent"
                   /\ regions.header.fn = composeProps.headerComponent
                   /\ regions.header.args =
                        <<composeProps.title, composeProps.onRequestClose>>
              ELSE regions.header.by = "Header"
        /\ IF composeProps.bodyComponent # Undefined
              THEN /\ regions.body.by = "bodyComponent"
                   /\ regions.body.fn = composeProps.bodyComponent
                   /\ regions.body.args =
                        <<composeProps.children, composeProps.onRequestClose>>
              ELSE regions.body.by = "Body"
        /\ composeProps.footerComponent # Undefined =>
              /\ regions.footer.by = "footerComponent"
              /\ regions.footer.fn = composeProps.footerComponent
              /\ regions.footer.args =
                    <<composeProps.onConfirm, composeProps.onCancel>>
        /\ regions.footer.by = "Footer" <=>
              (composeProps.footerComponent = Undefined
                    /\ composeProps.isConfirmationModal)
        /\ regions.footer = NoRegion <=>
              (composeProps.footerComponent = Undefined
                    /\ ~composeProps.isConfirmationModal)

C18_Witness ==
    /\ composed
    /\ composeProps.headerComponent # Undefined
    /\ composeProps.bodyComponent = Undefined
    /\ composeProps.footerComponent = Undefined
    /\ ~composeProps.isConfirmationModal
    /\ regions.header.by = "headerComponent"
    /\ regions.body.by = "Body"
    /\ regions.footer = NoRegion

\* C19: a click on page v calls the onChange of the parent with v exactly once
\* and changes nothing the component remembers; the page shown is always the page
\* prop of the latest render.
C19_PageIsTheProp ==
    [][/\ pageMounted' => pageView' = pageProps'.page
       /\ \A v \in Pages :
            PageChange(v) =>
                /\ pageCalls' = << <<"onChange", pageProps.onChange, v>> >>
                /\ pageState' = pageState
                /\ pageView' = pageProps.page]_vars

C19_Witness ==
    /\ pageMounted
    /\ pageProps.count = 3 /\ pageProps.page = 2
    /\ pageCalls = << <<"onChange", pageProps.onChange, 3>> >>
    /\ pageView = 2

\* C20: every render of CustomBreadcrumb with the items missing or empty logs the
\* warning and returns nothing, the first render and the renders after the mount
\* effect alike.
C20_WarnsAndRendersNothing ==
    [][/\ \A items \in ItemsProps :
            ((CrumbMount(items) \/ CrumbRerender(items))
                /\ (~items.given \/ Len(items.list) = 0)) =>
                    (warnings' = <<WarnText>> /\ crumbOutput'.nothing)
       /\ (CrumbMountEffect /\ (~crumbItems.given \/ Len(crumbItems.list) = 0)) =>
            (warnings' = <<WarnText>> /\ crumbOutput'.nothing)]_vars

C20_Witness ==
    /\ crumbRendered /\ ~isMounted /\ effectPending
    /\ crumbItems.given /\ crumbItems.list = << >>
    /\ warnings = <<WarnText>>
    /\ crumbOutput.nothing

(***************************************************************************)
(* Properties of CustomThemeProvider and CustomTabs                        *)
(***************************************************************************)

\* C21: the mode of the created theme is the mode of themeOptions.palette when
\* that sets one, otherwise 'dark' for darkMode true and 'light' for darkMode
\* false, also when themeOptions.palette gives other keys only.
C21_DarkModeSelectsMode ==
    themed =>
        theme.palette.mode =
            IF themeProps.themeOptions.hasPalette
                    /\ themeProps.themeOptions.palette.mode # Undef
                THEN themeProps.themeOptions.palette.mode
                ELSE IF themeProps.darkMode = JsTrue THEN "dark" ELSE "light"

\* C22: the first render makes the first item the active tab and displays its
\* content; a selection of a tab displays exactly the content of the item with the
\* selected value, for string and number values alike.
C22_ActiveTabContent ==
    [][/\ \A items \in TabItems :
            (TabsMount(items) /\ Len(items) >= 1) =>
                (activeTab' = items[1] /\ tabContent' = <<1>>)
       /\ \A i \in 1 .. MaxTabs :
            TabSelect(i) =>
                (activeTab' = tabItems[i] /\ tabContent' = <<i>>)]_vars

(***************************************************************************)
(* Properties of the Modal over its lifetime                               *)
(***************************************************************************)

\* C23: with onOpen and onClose the same functions on every render, no step
\* invokes both, the first render invokes onOpen if it is open and onClose if it
\* is closed, and each invocation is of the one that was not invoked last.
C23_NotificationsAlternate ==
    [][/\ Len(Notifications(calls')) <= 1
       /\ (~mounted /\ mounted') =>
            Notifications(calls') =
                IF props'.isOpen THEN << <<"onOpen", props'.onOpen>> >>
                ELSE << <<"onClose", props'.onClose>> >>
       /\ \A i \in 1 .. Len(Notifications(calls')) :
            Notifications(calls')[i][1] # notified]_vars

C23_Witness ==
    /\ mounted /\ props.isOpen
    /\ event.op = "render" /\ ~event.wasOpen
    /\ calls = << <<"onOpen", props.onOpen>> >>
    /\ notified = "onOpen"

\* C24: once the effects of a render have run, the one registered listener is the
\* closure of that render: an Escape keydown invokes the onRequestClose of the
\* latest props exactly when their isOpen and requestCloseOnEscClick are true, and
\* no function of an earlier render.
C24_ListenerOfLatestRender ==
    mounted =>
        /\ listeners = <<CloseListener(props)>>
        /\ Dispatch(listeners, "Escape") =
                IF props.isOpen /\ props.requestCloseOnEscClick
                    THEN << <<"onRequestClose", props.onRequestClose>> >>
                    ELSE << >>

C24_Witness ==
    /\ mounted
    /\ event.op = "render" /\ ~event.wasOpen
    /\ props.isOpen /\ props.requestCloseOnEscClick
    /\ props.onRequestClose \in Fns
    /\ listeners = <<CloseListener(props)>>

\* the calls made on behalf of instance i, and the listeners it owns
CallsFor(cs, i) == SelectSeq(cs, LAMBDA c : c[1] = i)

OwnedBy(ls, i) == SelectSeq(ls, LAMBDA l : l.owner = i)

\* C25: one Escape keydown invokes the onRequestClose of every instance that is
\* open with requestCloseOnEscClick true, each exactly once, and of no other; a
\* step of one instance leaves the listeners of the others as they are.
C25_EveryOpenInstanceNotified ==
    [][/\ MultiKeydown("Escape") =>
            \A i \in ModalIds :
                CallsFor(multiCalls', i) =
                    IF /\ instances[i].mounted
                       /\ instances[i].props.isOpen
                       /\ instances[i].props.requestCloseOnEscClick
                        THEN << <<i, "onRequestClose",
                                  instances[i].props.onRequestClose>> >>
                        ELSE << >>
       /\ \A i \in ModalIds :
            instances'[i] = instances[i] =>
                OwnedBy(docListeners', i) = OwnedBy(docListeners, i)]_vars

C25_Witness ==
    /\ \A i \in {1, 2} :
            /\ instances[i].mounted
            /\ instances[i].props.isOpen
            /\ instances[i].props.requestCloseOnEscClick
    /\ Len(CallsFor(multiCalls, 1)) = 1
    /\ Len(CallsFor(multiCalls, 2)) = 1

\* C26: the unmount of an open instance removes the content and the keydown
\* listener and invokes no callback; a keydown after the unmount invokes no
\* callback either.
C26_UnmountInvokesNothing ==
    [][/\ (mounted /\ ~mounted' /\ props.isOpen) =>
            (~portal' /\ listeners' = << >> /\ calls' = << >>)
       /\ \A key \in Keys :
            (~mounted /\ Keydown(key)) => calls' = << >>]_vars

C26_Witness ==
    /\ ~mounted /\ ~portal
    /\ event.op = "unmount" /\ event.wasOpen
    /\ calls = << >>
    /\ \A key \in Keys : Dispatch(listeners, key) = << >>

====
